---- MODULE Spec2Model ----
(***************************************************************************)
(* Model of example.go: a script that provisions two Azure virtual         *)
(* machines, runs a fixed sequence of operations on each, and tears them   *)
(* down.  The process is a main goroutine plus four goroutines forked with *)
(* `go`; every client call is a request that is issued, stays in flight,   *)
(* and returns success or an error that onErrorFail turns into os.Exit(1). *)
(***************************************************************************)
EXTENDS Integers, Sequences, FiniteSets, TLC

VARIABLES
    pc,          \* per goroutine: index of its current instruction
    st,          \* per goroutine: "idle" | "ready" | "wait" | "done"
    exitStatus,  \* <<>> while the process runs, <<n>> after it exited with n
    failedIn,    \* the goroutine whose onErrorFail ended the process, or "none"
    deferred,    \* TRUE once `defer groupClient.Delete` has been registered
    deferredDel, \* the deferred Delete request: "none" | "pending" | "ok" | "err"
    stdin,       \* lines typed by the operator and not yet read by Scanln
    entered,     \* lines the operator has typed so far
    prompts,     \* "Press enter ..." prompts printed so far
    vmobj,       \* per goroutine: the *compute.VirtualMachine local of vmOperations
    fetched,     \* per VM: the representation its Get returned
    store,       \* per VM: the last payload the provider accepted
    issued,      \* per goroutine: the requests it has issued, in order
    completed,   \* per goroutine: the requests that returned without error
    answers,     \* the representations the provider may answer a Get with
    sent,        \* per goroutine: the VM its last CreateOrUpdate carried
    env,         \* the process environment: per variable, nil (unset) or its value
    reported     \* the variable named by "Missing environment variable", or "none"

vars == <<pc, st, exitStatus, failedIn, deferred, deferredDel, stdin, entered,
          prompts, vmobj, fetched, store, issued, completed, answers, sent,
          env, reported>>

----------------------------------------------------------------------------
(* Bounds and program constants *)

MaxLines == 2

MaxInt32 == 2147483647
MinInt32 == -MaxInt32 - 1
BaselineGB == 256
GrowthGB == 10

\* exitStatus while the process runs; <<n>> once it has exited with status n.
Running == <<>>
Exited(n) == <<n>>

linuxVMname == "linuxVM"
windowsVMname == "windowsVM"
groupName == "your-azure-sample-group"
accountName == "golangrocksonazure"
VMNames == {linuxVMname, windowsVMname}

\* main, the four goroutines forked with `go`, and "init": the init function,
\* which the runtime runs to its end before it calls main.
Goroutines == {"init", "main", "storage", "createLinux", "opsLinux", "deleteLinux"}

\* The variables init reads, in the order it reads them, and the variable
\* the README tells the user to set.
IdentifierVars ==
    <<"AZURE_SUBSCRIPTION_ID", "AZURE_TENANT_ID", "AZURE_CLIENT_ID", "AZURE_CLIENT_SECRET">>

AuthLocationVar == "AZURE_AUTH_LOCATION"

EnvVars == {IdentifierVars[i] : i \in DOMAIN IdentifierVars} \cup {AuthLocationVar}

----------------------------------------------------------------------------
(* int32 arithmetic and nil-able pointers.  A pointer is <<>> when nil and  *)
(* <<v>> when it points at v.                                               *)

Nil == <<>>
Ptr(v) == <<v>>
Deref(p) == p[1]

\* a + b on int32 operands, wrapping around as Go's += does.  Written so
\* that no intermediate value leaves the int32 range.
Add32(a, b) ==
    IF b >= 0 /\ a > MaxInt32 - b THEN MinInt32 + ((a - (MaxInt32 - b)) - 1)
    ELSE IF b < 0 /\ a < MinInt32 - b THEN MaxInt32 - ((MinInt32 - b) - a - 1)
    ELSE a + b

----------------------------------------------------------------------------
(* The fields of compute.VirtualMachine the program reads or writes.        *)

setVMparameters == [tags |-> Nil, disks |-> Nil, size |-> Nil]

NoVM == [tags |-> Nil, disks |-> Nil, size |-> Nil]

SampleTags == {<<"who rocks", "golang">>, <<"where", "on azure">>}

SampleDisk == [lun |-> 0, name |-> "dataDisk", sizeGB |-> 1]

PriorTags == {<<"env", "old">>, <<"where", "elsewhere">>}

PriorDisk == [lun |-> 3, name |-> "scratch", sizeGB |-> 64]

\* Sizes the provider may report for the OS disk.
ReportedSizes ==
    {Nil} \cup {Ptr(s) : s \in {MinInt32, -1, 0, 1, 255, 256, 500,
                                MaxInt32 - 10, MaxInt32 - 9, MaxInt32}}

\* Representations a Get may return: a VM as created, with any reported
\* size, and VMs that carry earlier tags and data disks.
Catalog ==
    {[tags |-> Nil, disks |-> Nil, size |-> s] : s \in ReportedSizes}
    \cup {[tags |-> Ptr(PriorTags), disks |-> Ptr(<<PriorDisk>>), size |-> Ptr(30)],
          [tags |-> Ptr({}), disks |-> Ptr(<<PriorDisk, SampleDisk>>), size |-> Ptr(127)]}

\* The representation a Get answers with when the whole program is explored:
\* a VM with earlier tags, a data disk and a reported size.  The operations
\* phase is explored with all of Catalog (SpecOps below).
BriefCatalog ==
    {[tags |-> Ptr(PriorTags), disks |-> Ptr(<<PriorDisk>>), size |-> Ptr(30)]}

----------------------------------------------------------------------------
(* Instructions.  Each goroutine runs a straight-line list of them.         *)
(*   call   : a client method call whose error is passed to onErrorFail;    *)
(*            pre names the assignment to *vm made just before the call     *)
(*   go     : fork the goroutine named in arg                               *)
(*   defer  : register the deferred groupClient.Delete                      *)
(*   prompt : print a "Press enter ..." prompt                              *)
(*   scanln : fmt.Scanln(&input)                                            *)
(*   leave  : return from vmOperations; its local vm goes out of scope      *)

Call(fn, api, res, pre) ==
    [op |-> "call", fn |-> fn, api |-> api, res |-> res, arg |-> pre]

Go(g) == [op |-> "go", fn |-> "", api |-> "", res |-> "", arg |-> g]

Defer == [op |-> "defer", fn |-> "main", api |-> "Groups.Delete", res |-> groupName, arg |-> ""]

Prompt == [op |-> "prompt", fn |-> "main", api |-> "", res |-> "", arg |-> ""]

Scanln == [op |-> "scanln", fn |-> "main", api |-> "", res |-> "", arg |-> ""]

Leave == [op |-> "leave", fn |-> "vmOperations", api |-> "", res |-> "", arg |-> ""]

\* getEnvVarOrExit(varName)
GetEnvVarOrExit(varName) ==
    [op |-> "getenv", fn |-> "getEnvVarOrExit", api |-> "", res |-> "", arg |-> varName]

\* A constructor of init that talks to no service.
Construct(what) == [op |-> "construct", fn |-> "init", api |-> "", res |-> "", arg |-> what]

----------------------------------------------------------------------------
(* The functions of example.go as instruction lists.                        *)

\* init.  With a well-formed tenant ID and non-empty credentials, which is
\* what the environments of this model hold, NewOAuthConfig and
\* NewServicePrincipalToken return no error; they and createClients send no
\* request.
init ==
    << GetEnvVarOrExit(IdentifierVars[1]),
       GetEnvVarOrExit(IdentifierVars[2]),
       Construct("NewOAuthConfig"),
       GetEnvVarOrExit(IdentifierVars[3]),
       GetEnvVarOrExit(IdentifierVars[4]),
       Construct("NewServicePrincipalToken"),
       Construct("createClients") >>

storageGoroutine ==
    << Call("createNeededResources.func1", "Accounts.Create", accountName, "") >>

createNeededResources ==
    << Call("createNeededResources", "Groups.CreateOrUpdate", groupName, ""),
       Go("storage"),
       Call("createNeededResources", "VirtualNetworks.CreateOrUpdate", "vNet", ""),
       Call("createNeededResources", "Subnets.CreateOrUpdate", "subnet", ""),
       Call("createNeededResources", "Subnets.Get", "subnet", "") >>

createPIPandNIC(machine) ==
    << Call("createPIPandNIC", "PublicIPAddresses.CreateOrUpdate", machine, ""),
       Call("createPIPandNIC", "PublicIPAddresses.Get", machine, ""),
       Call("createPIPandNIC", "Interfaces.CreateOrUpdate", machine, ""),
       Call("createPIPandNIC", "Interfaces.Get", machine, "") >>

createVM(vmName) ==
    createPIPandNIC(vmName)
    \o << Call("createVM", "VirtualMachines.CreateOrUpdate", vmName, "new") >>

getVM(vmName) == Call("getVM", "VirtualMachines.Get", vmName, "")

updateVM(vmName) == Call("updateVM", "VirtualMachines.CreateOrUpdate", vmName, "tags")

attachDataDisk(vmName) ==
    Call("attachDataDisk", "VirtualMachines.CreateOrUpdate", vmName, "attach")

detachDataDisks(vmName) ==
    Call("detachDataDisks", "VirtualMachines.CreateOrUpdate", vmName, "detach")

\* Variant of updateOSdiskSize that sends the new size before deallocating.
updateOSdiskSize_ResizeFirst(vmName) ==
    << Call("updateOSdiskSize", "VirtualMachines.CreateOrUpdate", vmName, "grow"),
       Call("updateOSdiskSize", "VirtualMachines.Deallocate", vmName, "") >>

updateOSdiskSize(vmName) ==
    << Call("updateOSdiskSize", "VirtualMachines.Deallocate", vmName, "nilToZero"),
       Call("updateOSdiskSize", "VirtualMachines.CreateOrUpdate", vmName, "grow") >>

startVM(vmName) == Call("startVM", "VirtualMachines.Start", vmName, "")

restartVM(vmName) == Call("restartVM", "VirtualMachines.Restart", vmName, "")

stopVM(vmName) == Call("stopVM", "VirtualMachines.PowerOff", vmName, "")

\* Variant of vmOperations that restarts the VM before starting it.
vmOperations_RestartFirst(vmName) ==
    << getVM(vmName), updateVM(vmName), attachDataDisk(vmName), detachDataDisks(vmName) >>
    \o updateOSdiskSize(vmName)
    \o << restartVM(vmName), startVM(vmName), stopVM(vmName), Leave >>

vmOperations(vmName) ==
    << getVM(vmName), updateVM(vmName), attachDataDisk(vmName), detachDataDisks(vmName) >>
    \o updateOSdiskSize(vmName)
    \o << startVM(vmName), restartVM(vmName), stopVM(vmName), Leave >>

listVMs == << Call("listVMs", "VirtualMachines.ListAll", "", "") >>

deleteVM(vmName) == << Call("deleteVM", "VirtualMachines.Delete", vmName, "") >>

\* Variant of main that forks vmOperations(linuxVMname) before reading the
\* operator's first line.
main_ForkBeforeScan ==
    createNeededResources
    \o << Defer, Go("createLinux") >>
    \o createVM(windowsVMname)
    \o << Prompt, Go("opsLinux"), Scanln >>
    \o vmOperations(windowsVMname)
    \o listVMs
    \o << Prompt, Scanln, Go("deleteLinux") >>
    \o deleteVM(windowsVMname)
    \o << Call("main", "Groups.Delete", groupName, "") >>

main ==
    createNeededResources
    \o << Defer, Go("createLinux") >>
    \o createVM(windowsVMname)
    \o << Prompt, Scanln, Go("opsLinux") >>
    \o vmOperations(windowsVMname)
    \o listVMs
    \o << Prompt, Scanln, Go("deleteLinux") >>
    \o deleteVM(windowsVMname)
    \o << Call("main", "Groups.Delete", groupName, "") >>

Program(g) ==
    CASE g = "init" -> init
      [] g = "main" -> main
      [] g = "storage" -> storageGoroutine
      [] g = "createLinux" -> createVM(linuxVMname)
      [] g = "opsLinux" -> vmOperations(linuxVMname)
      [] g = "deleteLinux" -> deleteVM(linuxVMname)

\* The instruction goroutine g is at, when it is at one.
AtEnd(g) == pc[g] > Len(Program(g))
Instr(g) == Program(g)[pc[g]]

----------------------------------------------------------------------------
(* The assignments the operations make to *vm before their call.            *)

\* Variant of SetTags that adds the two tags to those the object has.
SetTags_Merge(vm) ==
    [vm EXCEPT !.tags = Ptr(SampleTags \cup (IF vm.tags = Nil THEN {} ELSE Deref(vm.tags)))]

\* updateVM: vm.Tags = &map{...}
SetTags(vm) == [vm EXCEPT !.tags = Ptr(SampleTags)]

\* Variant of SetDataDisk that appends the disk to the list the object has.
SetDataDisk_Append(vm) ==
    [vm EXCEPT !.disks = Ptr((IF vm.disks = Nil THEN <<>> ELSE Deref(vm.disks))
                             \o <<SampleDisk>>)]

\* attachDataDisk: vm.StorageProfile.DataDisks = &[]DataDisk{{Lun 0, ...}}
SetDataDisk(vm) == [vm EXCEPT !.disks = Ptr(<<SampleDisk>>)]

\* Variant of ClearDataDisks that sends a new object holding only the list.
ClearDataDisks_FreshObject(vm) == [NoVM EXCEPT !.disks = Ptr(<<>>)]

\* detachDataDisks: vm.StorageProfile.DataDisks = &[]DataDisk{}
ClearDataDisks(vm) == [vm EXCEPT !.disks = Ptr(<<>>)]

\* updateOSdiskSize, before Deallocate: a nil DiskSizeGB becomes a pointer to 0
NilToZero(vm) == IF vm.size = Nil THEN [vm EXCEPT !.size = Ptr(0)] ELSE vm

\* Variant of GrowSize whose floor applies to negative sizes only.
GrowSize_StrictFloor(s) == Add32(IF s < 0 THEN BaselineGB ELSE s, GrowthGB)

\* Variant of GrowSize that raises every size below 256 to 256.
GrowSize_FloorAll(s) == Add32(IF s <= BaselineGB THEN BaselineGB ELSE s, GrowthGB)

\* updateOSdiskSize, after Deallocate: the floor and the int32 addition
GrowSize(s) == Add32(IF s <= 0 THEN BaselineGB ELSE s, GrowthGB)

Grow(vm) == [vm EXCEPT !.size = Ptr(GrowSize(Deref(vm.size)))]

Mutate(pre, vm) ==
    CASE pre = "tags" -> SetTags(vm)
      [] pre = "attach" -> SetDataDisk(vm)
      [] pre = "detach" -> ClearDataDisks(vm)
      [] pre = "nilToZero" -> NilToZero(vm)
      [] pre = "grow" -> Grow(vm)
      [] OTHER -> vm

\* What a VM CreateOrUpdate carries: createVM sends setVMparameters, the
\* operations send *vm as it is after their assignment.
Payload(ins, vm) == IF ins.arg = "new" THEN setVMparameters ELSE Mutate(ins.arg, vm)

Label(ins) == <<ins.fn, ins.api, ins.res>>

\* Variant of Missing that tests whether the variable is set at all.
Missing_UnsetOnly(varName) == env[varName] = Nil

\* os.Getenv: the value of a variable, "" when it is unset.
Getenv(varName) == IF env[varName] = Nil THEN "" ELSE Deref(env[varName])

\* getEnvVarOrExit's test: value == ""
Missing(varName) == Getenv(varName) = ""

\* The environment in which the four identifier variables are set and
\* AZURE_AUTH_LOCATION is not.
IdentifiersSet ==
    [v \in EnvVars |-> IF v = AuthLocationVar THEN Nil ELSE Ptr("value")]

----------------------------------------------------------------------------
(* Initial state: the process has started with the four identifier          *)
(* variables set; init is about to run.                                     *)

\* The state at process start, but for the environment and the answers of Get.
AtProcessStart ==
    /\ pc = [g \in Goroutines |-> 1]
    /\ st = [g \in Goroutines |-> IF g = "init" THEN "ready" ELSE "idle"]
    /\ reported = "none"
    /\ exitStatus = Running
    /\ failedIn = "none"
    /\ deferred = FALSE
    /\ deferredDel = "none"
    /\ stdin = 0
    /\ entered = 0
    /\ prompts = 0
    /\ vmobj = [g \in Goroutines |-> NoVM]
    /\ fetched = [v \in VMNames |-> NoVM]
    /\ store = [v \in VMNames |-> NoVM]
    /\ issued = [g \in Goroutines |-> <<>>]
    /\ completed = [g \in Goroutines |-> <<>>]
    /\ sent = [g \in Goroutines |-> NoVM]

Init ==
    /\ AtProcessStart
    /\ answers = BriefCatalog
    /\ env = IdentifiersSet

\* Goroutine g moves to its next instruction; a forked goroutine that has
\* run its last instruction is done.
Advance(g) ==
    /\ pc' = [pc EXCEPT ![g] = pc[g] + 1]
    /\ st' = [st EXCEPT ![g] =
                IF g # "main" /\ pc[g] = Len(Program(g)) THEN "done" ELSE "ready"]

\* Variant of Ready in which a goroutine keeps running after os.Exit.
Ready_IgnoresExit(g) == st[g] = "ready" /\ ~AtEnd(g)

Ready(g) == exitStatus = Running /\ st[g] = "ready" /\ ~AtEnd(g)

\* A client method is called: the request goes out and g blocks on its result.
Issue(g) ==
    /\ Ready(g)
    /\ Instr(g).op = "call"
    /\ st' = [st EXCEPT ![g] = "wait"]
    /\ vmobj' = [vmobj EXCEPT ![g] = Mutate(Instr(g).arg, vmobj[g])]
    /\ issued' = [issued EXCEPT ![g] = Append(issued[g], Label(Instr(g)))]
    /\ sent' = IF Instr(g).api = "VirtualMachines.CreateOrUpdate"
               THEN [sent EXCEPT ![g] = Payload(Instr(g), vmobj[g])]
               ELSE sent
    /\ UNCHANGED <<pc, exitStatus, failedIn, deferred, deferredDel, stdin, entered,
                   prompts, fetched, store, completed, answers, env, reported>>

\* The request returns without error: onErrorFail does nothing.  A Get hands
\* back the provider's representation; a VM CreateOrUpdate has been stored.
ReturnOk(g) ==
    /\ exitStatus = Running
    /\ st[g] = "wait"
    /\ LET ins == Instr(g) IN
        /\ IF ins.api = "VirtualMachines.Get"
           THEN \E rep \in answers :
                  /\ vmobj' = [vmobj EXCEPT ![g] = rep]
                  /\ fetched' = [fetched EXCEPT ![ins.res] = rep]
           ELSE UNCHANGED <<vmobj, fetched>>
        /\ store' = IF ins.api = "VirtualMachines.CreateOrUpdate"
                    THEN [store EXCEPT ![ins.res] = sent[g]]
                    ELSE store
        /\ completed' = [completed EXCEPT ![g] = Append(completed[g], Label(ins))]
    /\ Advance(g)
    /\ UNCHANGED <<exitStatus, failedIn, deferred, deferredDel, stdin, entered,
                   prompts, issued, answers, sent, env, reported>>

\* Variant of ReturnErr in which the storage goroutine records its error and
\* ends without calling os.Exit.
ReturnErr_Deferred(g) ==
    /\ exitStatus = Running
    /\ st[g] = "wait"
    /\ failedIn' = g
    /\ IF g = "storage"
       THEN /\ st' = [st EXCEPT ![g] = "done"]
            /\ UNCHANGED exitStatus
       ELSE /\ exitStatus' = Exited(1)
            /\ UNCHANGED st
    /\ UNCHANGED <<pc, deferred, deferredDel, stdin, entered, prompts, vmobj,
                   fetched, store, issued, completed, answers, sent, env, reported>>

\* The request returns an error: onErrorFail prints it and calls os.Exit(1),
\* which ends every goroutine and runs no deferred call.
ReturnErr(g) ==
    /\ exitStatus = Running
    /\ st[g] = "wait"
    /\ exitStatus' = Exited(1)
    /\ failedIn' = g
    /\ UNCHANGED <<pc, st, deferred, deferredDel, stdin, entered, prompts, vmobj,
                   fetched, store, issued, completed, answers, sent, env, reported>>

\* getEnvVarOrExit: a missing variable is named on standard output and the
\* process exits with status 1; otherwise init goes on.
GetEnv ==
    /\ Ready("init")
    /\ Instr("init").op = "getenv"
    /\ IF Missing(Instr("init").arg)
       THEN /\ reported' = Instr("init").arg
            /\ exitStatus' = Exited(1)
            /\ UNCHANGED <<pc, st>>
       ELSE /\ Advance("init")
            /\ UNCHANGED <<reported, exitStatus>>
    /\ UNCHANGED <<failedIn, deferred, deferredDel, stdin, entered, prompts, vmobj,
                   fetched, store, issued, completed, answers, sent, env>>

\* NewOAuthConfig, NewServicePrincipalToken, createClients.  When the last of
\* them has returned, init returns and the runtime calls main.
Configure ==
    /\ Ready("init")
    /\ Instr("init").op = "construct"
    /\ pc' = [pc EXCEPT !["init"] = pc["init"] + 1]
    /\ st' = IF pc["init"] = Len(init)
             THEN [st EXCEPT !["init"] = "done", !["main"] = "ready"]
             ELSE st
    /\ UNCHANGED <<exitStatus, failedIn, deferred, deferredDel, stdin, entered,
                   prompts, vmobj, fetched, store, issued, completed, answers, sent,
                   env, reported>>

\* go f(...): the new goroutine becomes runnable; nothing waits for it.
Fork(g) ==
    /\ Ready(g)
    /\ Instr(g).op = "go"
    /\ pc' = [pc EXCEPT ![g] = pc[g] + 1]
    /\ st' = [st EXCEPT ![Instr(g).arg] = "ready"]
    /\ UNCHANGED <<exitStatus, failedIn, deferred, deferredDel, stdin, entered,
                   prompts, vmobj, fetched, store, issued, completed, answers, sent, env, reported>>

\* defer groupClient.Delete(groupName, nil)
RegisterDefer ==
    /\ Ready("main")
    /\ Instr("main").op = "defer"
    /\ deferred' = TRUE
    /\ Advance("main")
    /\ UNCHANGED <<exitStatus, failedIn, deferredDel, stdin, entered, prompts,
                   vmobj, fetched, store, issued, completed, answers, sent, env, reported>>

\* fmt.Print("Press enter to ...")
PrintPrompt ==
    /\ Ready("main")
    /\ Instr("main").op = "prompt"
    /\ prompts' = prompts + 1
    /\ Advance("main")
    /\ UNCHANGED <<exitStatus, failedIn, deferred, deferredDel, stdin, entered,
                   vmobj, fetched, store, issued, completed, answers, sent, env, reported>>

\* fmt.Scanln(&input): blocks until a line is available and consumes it.
ReadLine ==
    /\ Ready("main")
    /\ Instr("main").op = "scanln"
    /\ stdin > 0
    /\ stdin' = stdin - 1
    /\ Advance("main")
    /\ UNCHANGED <<exitStatus, failedIn, deferred, deferredDel, entered, prompts,
                   vmobj, fetched, store, issued, completed, answers, sent, env, reported>>

\* vmOperations returns.
LeaveOperations(g) ==
    /\ Ready(g)
    /\ Instr(g).op = "leave"
    /\ vmobj' = [vmobj EXCEPT ![g] = NoVM]
    /\ Advance(g)
    /\ UNCHANGED <<exitStatus, failedIn, deferred, deferredDel, stdin, entered,
                   prompts, fetched, store, issued, completed, answers, sent, env, reported>>

\* main returns: the deferred groupClient.Delete is called, its channels are
\* dropped, and the process exits with status 0 whatever the other goroutines
\* are doing.
MainReturn ==
    /\ exitStatus = Running
    /\ st["main"] = "ready"
    /\ AtEnd("main")
    /\ deferredDel' = IF deferred THEN "pending" ELSE deferredDel
    /\ exitStatus' = Exited(0)
    /\ UNCHANGED <<pc, st, failedIn, deferred, stdin, entered, prompts, vmobj,
                   fetched, store, issued, completed, answers, sent, env, reported>>

\* The provider finishes the deferred Delete; nobody reads the result.
DeferredDeleteEnds ==
    /\ deferredDel = "pending"
    /\ \E r \in {"ok", "err"} : deferredDel' = r
    /\ UNCHANGED <<pc, st, exitStatus, failedIn, deferred, stdin, entered, prompts,
                   vmobj, fetched, store, issued, completed, answers, sent, env, reported>>

\* The operator presses enter.
OperatorEnter ==
    /\ exitStatus = Running
    /\ entered < MaxLines
    /\ entered' = entered + 1
    /\ stdin' = stdin + 1
    /\ UNCHANGED <<pc, st, exitStatus, failedIn, deferred, deferredDel, prompts,
                   vmobj, fetched, store, issued, completed, answers, sent, env, reported>>

Next ==
    \/ GetEnv
    \/ Configure
    \/ \E g \in Goroutines : Issue(g)
    \/ \E g \in Goroutines : ReturnOk(g)
    \/ \E g \in Goroutines : ReturnErr(g)
    \/ \E g \in Goroutines : Fork(g)
    \/ \E g \in Goroutines : LeaveOperations(g)
    \/ RegisterDefer
    \/ PrintPrompt
    \/ ReadLine
    \/ MainReturn
    \/ DeferredDeleteEnds
    \/ OperatorEnter

Spec == Init /\ [][Next]_vars

----------------------------------------------------------------------------
(* Start-up on its own, in every environment: each of the five variables    *)
(* unset, set to the empty string, or set to a usable value.  It runs init  *)
(* and, when init returns, createNeededResources.                           *)

EnvValues == {Nil, Ptr(""), Ptr("value")}

InitStart ==
    /\ AtProcessStart
    /\ answers = BriefCatalog
    /\ env \in [EnvVars -> EnvValues]

InProvisioning(g) ==
    \/ g = "storage"
    \/ g = "main" /\ pc["main"] <= Len(createNeededResources)

StartIssue(g) == InProvisioning(g) /\ Issue(g)

StartReturnOk(g) == InProvisioning(g) /\ ReturnOk(g)

StartReturnErr(g) == InProvisioning(g) /\ ReturnErr(g)

StartFork(g) == InProvisioning(g) /\ Fork(g)

NextStart ==
    \/ GetEnv
    \/ Configure
    \/ \E g \in {"main", "storage"} : StartIssue(g)
    \/ \E g \in {"main", "storage"} : StartReturnOk(g)
    \/ \E g \in {"main", "storage"} : StartReturnErr(g)
    \/ \E g \in {"main", "storage"} : StartFork(g)

SpecStart == InitStart /\ [][NextStart]_vars

----------------------------------------------------------------------------
(* The operations phase on its own, with every representation of Catalog    *)
(* as a possible answer to Get.  It starts where main has read the first    *)
(* line, has forked vmOperations(linuxVMname) and is about to call          *)
(* vmOperations(windowsVMname), both creation chains having finished.       *)

OpsFunctions ==
    {"getVM", "updateVM", "attachDataDisk", "detachDataDisks", "updateOSdiskSize",
     "startVM", "restartVM", "stopVM"}

IsCall(ins) == ins.op = "call"

\* The labels of the calls in a list of instructions.
Labels(prog) ==
    LET calls == SelectSeq(prog, IsCall)
    IN [i \in DOMAIN calls |-> Label(calls[i])]

OpsStart == CHOOSE i \in DOMAIN main : main[i] = getVM(windowsVMname)

InOperations(g) ==
    /\ ~AtEnd(g)
    /\ Instr(g).fn \in OpsFunctions \cup {"vmOperations"}

InitOps ==
    /\ pc = [g \in Goroutines |->
               CASE g = "main" -> OpsStart
                 [] g = "opsLinux" -> 1
                 [] g = "deleteLinux" -> 1
                 [] OTHER -> Len(Program(g)) + 1]
    /\ st = [g \in Goroutines |->
               CASE g \in {"main", "opsLinux"} -> "ready"
                 [] g = "deleteLinux" -> "idle"
                 [] OTHER -> "done"]
    /\ exitStatus = Running
    /\ failedIn = "none"
    /\ deferred = TRUE
    /\ deferredDel = "none"
    /\ stdin = 0
    /\ entered = 1
    /\ prompts = 1
    /\ vmobj = [g \in Goroutines |-> NoVM]
    /\ fetched = [v \in VMNames |-> NoVM]
    /\ store = [v \in VMNames |-> setVMparameters]
    /\ issued = [g \in Goroutines |->
                   CASE g = "main" -> Labels(SubSeq(main, 1, OpsStart - 1))
                     [] g \in {"opsLinux", "deleteLinux"} -> <<>>
                     [] OTHER -> Labels(Program(g))]
    /\ completed = [g \in Goroutines |->
                      CASE g = "main" -> Labels(SubSeq(main, 1, OpsStart - 1))
                        [] g \in {"opsLinux", "deleteLinux"} -> <<>>
                        [] OTHER -> Labels(Program(g))]
    /\ answers = Catalog
    /\ sent = [g \in Goroutines |-> NoVM]
    /\ env = IdentifiersSet
    /\ reported = "none"

OpsIssue(g) == InOperations(g) /\ Issue(g)

OpsReturnOk(g) == InOperations(g) /\ ReturnOk(g)

OpsReturnErr(g) == InOperations(g) /\ ReturnErr(g)

OpsLeave(g) == InOperations(g) /\ LeaveOperations(g)

NextOps ==
    \/ \E g \in {"main", "opsLinux"} : OpsIssue(g)
    \/ \E g \in {"main", "opsLinux"} : OpsReturnOk(g)
    \/ \E g \in {"main", "opsLinux"} : OpsReturnErr(g)
    \/ \E g \in {"main", "opsLinux"} : OpsLeave(g)

SpecOps == InitOps /\ [][NextOps]_vars

\* InitOps, but for the answers of Get, is a state of the whole program.
OpsStartReached ==
    /\ pc["main"] = OpsStart /\ st["main"] = "ready"
    /\ pc["opsLinux"] = 1 /\ st["opsLinux"] = "ready"
    /\ st["deleteLinux"] = "idle"
    /\ st["storage"] = "done" /\ st["createLinux"] = "done"
    /\ exitStatus = Running /\ failedIn = "none"
    /\ deferred /\ deferredDel = "none"
    /\ stdin = 0 /\ entered = 1 /\ prompts = 1
    /\ vmobj = [g \in Goroutines |-> NoVM]
    /\ fetched = [v \in VMNames |-> NoVM]
    /\ store = [v \in VMNames |-> setVMparameters]
    /\ issued["main"] = Labels(SubSeq(main, 1, OpsStart - 1))
    /\ completed["main"] = issued["main"]
    /\ \A g \in {"storage", "createLinux"} :
         issued[g] = Labels(Program(g)) /\ completed[g] = issued[g]
    /\ issued["opsLinux"] = <<>> /\ issued["deleteLinux"] = <<>>
    /\ sent = [g \in Goroutines |-> NoVM]
    /\ st["init"] = "done" /\ pc["init"] = Len(init) + 1
    /\ issued["init"] = <<>> /\ completed["init"] = <<>>
    /\ env = IdentifiersSet /\ reported = "none"

----------------------------------------------------------------------------
(* Vocabulary of the properties: what has been issued and what has          *)
(* completed, read off the request logs.                                    *)

Has(seq, x) == \E i \in DOMAIN seq : seq[i] = x

IssuedReq(fn, api, res) == \E g \in Goroutines : Has(issued[g], <<fn, api, res>>)

CompletedReq(fn, api, res) == \E g \in Goroutines : Has(completed[g], <<fn, api, res>>)

\* Some request of a vmOperations run has been issued.
OperationIssued ==
    \E g \in Goroutines : \E i \in DOMAIN issued[g] : issued[g][i][1] \in OpsFunctions

VMCreated(vm) == CompletedReq("createVM", "VirtualMachines.CreateOrUpdate", vm)

StorageCreated ==
    CompletedReq("createNeededResources.func1", "Accounts.Create", accountName)

SubnetReturned == CompletedReq("createNeededResources", "Subnets.Get", "subnet")

\* A public-IP, NIC or VM creation request has been issued.
VMCreationIssued ==
    \E vm \in VMNames :
        \/ IssuedReq("createPIPandNIC", "PublicIPAddresses.CreateOrUpdate", vm)
        \/ IssuedReq("createPIPandNIC", "Interfaces.CreateOrUpdate", vm)
        \/ IssuedReq("createVM", "VirtualMachines.CreateOrUpdate", vm)

VMDeleteIssued(vm) == IssuedReq("deleteVM", "VirtualMachines.Delete", vm)

VMDeleted(vm) == CompletedReq("deleteVM", "VirtualMachines.Delete", vm)

TeardownGroupDeleteIssued == IssuedReq("main", "Groups.Delete", groupName)

\* A resource-group Delete has been called, in the teardown path or deferred.
GroupDeleteAttempted == TeardownGroupDeleteIssued \/ deferredDel # "none"

OperationsFinished(vm) == CompletedReq("stopVM", "VirtualMachines.PowerOff", vm)

ListIssued == IssuedReq("listVMs", "VirtualMachines.ListAll", "")

\* Some API call of the program has failed.
SomeCallFailed == failedIn # "none" \/ deferredDel = "err"

\* Every request every goroutine issued has returned without error.
AllCallsSucceeded ==
    /\ \A g \in Goroutines : completed[g] = issued[g]
    /\ deferredDel \in {"none", "ok"}

----------------------------------------------------------------------------
(* Properties.                                                              *)

\* C1: no vmOperations request is issued and the first prompt is not shown
\* until the VM CreateOrUpdate of both createVM chains has completed.
C1_CreationBarrier ==
    (OperationIssued \/ prompts >= 1)
        => (VMCreated(linuxVMname) /\ VMCreated(windowsVMname))

\* C2: createNeededResources returns the subnet only after the storage-account
\* creation has completed, so no public-IP, NIC or VM creation request is
\* issued while the storage account is not yet created.
C2_StorageJoined ==
    (SubnetReturned \/ VMCreationIssued) => StorageCreated

\* C3: once createNeededResources has returned, the process never ends
\* without a resource-group Delete having been attempted.
C3_CleanupOnEveryExit ==
    (exitStatus # Running /\ SubnetReturned) => GroupDeleteAttempted

\* C4: the teardown resource-group Delete is issued only after both VM Delete
\* requests have been issued and have completed.
C4_GroupDeleteAfterVMDeletes ==
    TeardownGroupDeleteIssued => (VMDeleted(linuxVMname) /\ VMDeleted(windowsVMname))

\* C5: the Linux vmOperations chain has completed its stop step before
\* listVMs runs, before the second prompt and before any VM Delete is issued.
C5_LinuxOperationsJoined ==
    (ListIssued \/ prompts >= 2 \/ \E vm \in VMNames : VMDeleteIssued(vm))
        => OperationsFinished(linuxVMname)

\* C6: whenever an API call of the program has failed, the process has
\* terminated with a non-zero exit status.
C6_FailureIsFatal ==
    SomeCallFailed => (exitStatus # Running /\ exitStatus # Exited(0))

\* C7: the process exits with status 0 only when every API call issued in
\* every chain has completed successfully and every forked chain has run to
\* its end, and never when an API call has failed.
C7_ExitZeroMeansAllSucceeded ==
    exitStatus = Exited(0) =>
        /\ AllCallsSucceeded
        /\ \A g \in Goroutines \ {"main"} : st[g] = "done"
        /\ ~SomeCallFailed

\* The goroutine that runs vmOperations for a VM.
OpsGoroutine(vm) == IF vm = windowsVMname THEN "main" ELSE "opsLinux"

\* updateOSdiskSize has issued its CreateOrUpdate for vm.
ResizeIssued(vm) ==
    Has(issued[OpsGoroutine(vm)],
        <<"updateOSdiskSize", "VirtualMachines.CreateOrUpdate", vm>>)

\* The current size of the fetched VM, nil read as 0.
CurrentSize(vm) == IF fetched[vm].size = Nil THEN 0 ELSE Deref(fetched[vm].size)

SentSize(vm) == Deref(sent[OpsGoroutine(vm)].size)

\* C8 as stated: the size sent is the integer (s <= 0 ? 256 : s) + 10, for
\* every 32-bit current size s.
C8_GrowthRuleUnbounded ==
    \A vm \in VMNames :
        ResizeIssued(vm) =>
            LET s == CurrentSize(vm)
                base == IF s <= 0 THEN 256 ELSE s
            IN /\ sent[OpsGoroutine(vm)].size # Nil
               /\ SentSize(vm) > base
               /\ SentSize(vm) - base = 10

\* C8, amended: the size sent is 266 for s <= 0 and s + 10 for
\* 0 < s <= 2147483637; for larger s the int32 addition wraps around and the
\* size sent is s + 10 - 2^32.
C8_GrowthRule ==
    \A vm \in VMNames :
        ResizeIssued(vm) =>
            LET s == CurrentSize(vm) IN
            /\ sent[OpsGoroutine(vm)].size # Nil
            /\ s <= 0 => SentSize(vm) = 266
            /\ (0 < s /\ s <= 2147483637) =>
                   (SentSize(vm) > s /\ SentSize(vm) - s = 10)
            /\ s > 2147483637 =>
                   (SentSize(vm) < 0 /\ SentSize(vm) - (-2147483647 - 1) = s - 2147483638)

\* A resize is in flight for a VM fetched with the largest int32 size,
\* another has been sent for a VM fetched with a nil size.
C8_Witness ==
    /\ ResizeIssued(windowsVMname) /\ fetched[windowsVMname].size = Ptr(MaxInt32)
    /\ ResizeIssued(linuxVMname) /\ fetched[linuxVMname].size = Nil
    /\ SentSize(linuxVMname) = 266

\* The requests of a vmOperations run, in the order stated by C9.
OpsOrder(vm) ==
    << <<"getVM", "VirtualMachines.Get", vm>>,
       <<"updateVM", "VirtualMachines.CreateOrUpdate", vm>>,
       <<"attachDataDisk", "VirtualMachines.CreateOrUpdate", vm>>,
       <<"detachDataDisks", "VirtualMachines.CreateOrUpdate", vm>>,
       <<"updateOSdiskSize", "VirtualMachines.Deallocate", vm>>,
       <<"updateOSdiskSize", "VirtualMachines.CreateOrUpdate", vm>>,
       <<"startVM", "VirtualMachines.Start", vm>>,
       <<"restartVM", "VirtualMachines.Restart", vm>>,
       <<"stopVM", "VirtualMachines.PowerOff", vm>> >>

IsOperation(label) == label[1] \in OpsFunctions

IsPrefix(a, b) == Len(a) <= Len(b) /\ a = SubSeq(b, 1, Len(a))

OpsIssued(vm) == SelectSeq(issued[OpsGoroutine(vm)], IsOperation)

OpsCompleted(vm) == SelectSeq(completed[OpsGoroutine(vm)], IsOperation)

\* C9: the requests of one VM's vmOperations run are issued in the order Get,
\* tag update, attach, detach, Deallocate, OS-disk-size update, Start,
\* Restart, PowerOff, each only after the previous one has completed
\* successfully; only the VM's own vmOperations goroutine issues them.
C9_OperationsInOrder ==
    \A vm \in VMNames :
        /\ IsPrefix(OpsIssued(vm), OpsOrder(vm))
        /\ IsPrefix(OpsCompleted(vm), OpsIssued(vm))
        /\ Len(OpsIssued(vm)) <= Len(OpsCompleted(vm)) + 1
        /\ \A g \in Goroutines \ {OpsGoroutine(vm)} :
             \A i \in DOMAIN issued[g] :
                 ~(IsOperation(issued[g][i]) /\ issued[g][i][3] = vm)

\* The Linux run has completed all nine requests while the Windows run has
\* issued only its Get: the two sequences are not ordered against each other.
C9_Witness ==
    /\ OpsCompleted(linuxVMname) = OpsOrder(linuxVMname)
    /\ Len(OpsIssued(windowsVMname)) = 1
    /\ Len(OpsCompleted(windowsVMname)) = 0

\* Lines Scanln has read.
LinesRead == entered - stdin

Absent(v) == env[v] = Nil \/ env[v] = Ptr("")

SomeIdentifierAbsent == \E i \in DOMAIN IdentifierVars : Absent(IdentifierVars[i])

\* The first of the four variables, in the order init reads them, that is absent.
FirstAbsent ==
    IdentifierVars[CHOOSE i \in DOMAIN IdentifierVars :
                      /\ Absent(IdentifierVars[i])
                      /\ \A j \in 1..(i - 1) : ~Absent(IdentifierVars[j])]

NothingIssued == \A g \in Goroutines : issued[g] = <<>>

\* C11: with AZURE_AUTH_LOCATION set and the four identifier variables unset,
\* start-up does not end with a missing-variable error.
C11_AuthFileAccepted ==
    (/\ env[AuthLocationVar] = Ptr("value")
     /\ \A i \in DOMAIN IdentifierVars : env[IdentifierVars[i]] = Nil)
        => ~(exitStatus = Exited(1) /\ reported # "none")

LastIssued(g, label) == issued[g] # <<>> /\ issued[g][Len(issued[g])] = label

LastCompleted(g, label) == completed[g] # <<>> /\ completed[g][Len(completed[g])] = label

\* The step in which goroutine g issues the given request, and the step in
\* which that request returns without error.
Issues(g, label) == issued'[g] = Append(issued[g], label)

Completes(g, label) == completed'[g] = Append(completed[g], label)

TagUpdate(vm) == <<"updateVM", "VirtualMachines.CreateOrUpdate", vm>>

AttachUpdate(vm) == <<"attachDataDisk", "VirtualMachines.CreateOrUpdate", vm>>

DetachUpdate(vm) == <<"detachDataDisks", "VirtualMachines.CreateOrUpdate", vm>>

ResizeUpdate(vm) == <<"updateOSdiskSize", "VirtualMachines.CreateOrUpdate", vm>>

\* C13: the request updateVM issues for a VM carries exactly the tags
\* "who rocks" = "golang" and "where" = "on azure", and when it completes
\* the provider stores exactly these tags for the VM, whatever tags the VM
\* had when it was fetched.
C13_TagsReplaced ==
    [][\A vm \in VMNames :
         LET g == OpsGoroutine(vm)
             two == Ptr({<<"who rocks", "golang">>, <<"where", "on azure">>})
         IN /\ Issues(g, TagUpdate(vm)) => sent'[g].tags = two
            /\ Completes(g, TagUpdate(vm)) =>
                 (sent[g].tags = two /\ store'[vm].tags = two)]_vars

\* The tag update of the Windows VM has completed on a VM fetched with other
\* tags, none of which is among the two.
C13_Witness ==
    /\ LastCompleted("main", TagUpdate(windowsVMname))
    /\ fetched[windowsVMname].tags = Ptr(PriorTags)
    /\ PriorTags # {} /\ PriorTags \cap SampleTags = {}
    /\ store[windowsVMname].tags # Ptr(PriorTags)

\* C14: the request attachDataDisk issues carries a data-disk list of exactly
\* one disk, LUN 0, name "dataDisk", 1 GB, and the provider stores that list
\* when the request completes, whatever disks the VM was fetched with; the
\* request detachDataDisks issues carries the empty list, which is what the
\* provider stores when it completes.
C14_DataDiskLifecycle ==
    [][\A vm \in VMNames :
         LET g == OpsGoroutine(vm)
             one == Ptr(<< [lun |-> 0, name |-> "dataDisk", sizeGB |-> 1] >>)
         IN /\ Issues(g, AttachUpdate(vm)) => sent'[g].disks = one
            /\ Completes(g, AttachUpdate(vm)) =>
                 (sent[g].disks = one /\ store'[vm].disks = one)
            /\ Issues(g, DetachUpdate(vm)) => sent'[g].disks = Ptr(<<>>)
            /\ Completes(g, DetachUpdate(vm)) =>
                 (sent[g].disks = Ptr(<<>>) /\ store'[vm].disks = Ptr(<<>>))]_vars

\* The attach of the Windows VM has completed on a VM fetched with another
\* disk, and the detach of the Linux VM has completed on a VM fetched with two.
C14_Witness ==
    /\ LastCompleted("main", AttachUpdate(windowsVMname))
    /\ fetched[windowsVMname].disks = Ptr(<<PriorDisk>>)
    /\ store[windowsVMname].disks = Ptr(<<SampleDisk>>)
    /\ LastCompleted("opsLinux", DetachUpdate(linuxVMname))
    /\ fetched[linuxVMname].disks = Ptr(<<PriorDisk, SampleDisk>>)
    /\ store[linuxVMname].disks = Ptr(<<>>)

\* C15 as stated: a failure of the storage-account creation ends the process
\* only once the network path (virtual network, subnet, subnet Get) is over.
C15_StorageFailureDeferred ==
    failedIn = "storage" => SubnetReturned

\* C15, amended: a failure of the storage-account creation is checked by the
\* storage goroutine itself when its request returns and ends the process at
\* once with status 1, at whatever point the main goroutine is.
C15_StorageFailureImmediate ==
    failedIn = "storage" =>
        /\ exitStatus = Exited(1)
        /\ st["storage"] = "wait" /\ completed["storage"] = <<>>

\* The storage failure has ended the process while the virtual-network
\* creation is still in flight.
C15_Witness ==
    /\ failedIn = "storage" /\ exitStatus = Exited(1)
    /\ st["main"] = "wait"
    /\ LastIssued("main", <<"createNeededResources", "VirtualNetworks.CreateOrUpdate", "vNet">>)
    /\ ~SubnetReturned

\* C16 as stated: when a call of one chain has failed, a request another
\* chain has in flight can still return to it.
C16_ConcurrentChainsUnaffected ==
    \A h \in Goroutines :
        (failedIn \notin {"none", h} /\ st[h] = "wait") => ENABLED ReturnOk(h)

\* C16, amended: a failed call ends the process with status 1, and from then
\* on no chain issues a request, has a request return or moves on.
C16_FailureStopsEveryChain ==
    [][failedIn # "none" =>
         /\ exitStatus = Exited(1)
         /\ issued' = issued /\ completed' = completed
         /\ pc' = pc /\ st' = st]_vars

\* A call of the main goroutine has failed while the Linux vmOperations run
\* has a request in flight, some of its nine requests not yet issued.
C16_Witness ==
    /\ failedIn = "main" /\ exitStatus = Exited(1)
    /\ st["opsLinux"] = "wait"
    /\ Len(issued["opsLinux"]) < Len(OpsOrder(linuxVMname))

\* Main has gone past the point that follows the requests of goroutine g.
PastSyncPoint(g) ==
    CASE g = "storage" -> SubnetReturned
      [] g = "createLinux" -> prompts >= 1
      [] g = "opsLinux" -> ListIssued
      [] g = "deleteLinux" -> TeardownGroupDeleteIssued
      [] OTHER -> FALSE

\* C17: while a request of any goroutine has not returned, the process has
\* not exited normally and the main goroutine has not gone past the point
\* that follows that request.
C17_HungCallHangsProgram ==
    \A g \in Goroutines :
        st[g] = "wait" => (exitStatus # Exited(0) /\ ~PastSyncPoint(g))

\* C18 as stated: whatever the current size, the size sent is at least 266
\* and greater than the current size.
C18_FloorOf256 ==
    \A vm \in VMNames :
        ResizeIssued(vm) =>
            (SentSize(vm) >= 266 /\ SentSize(vm) > CurrentSize(vm))

\* C18, amended: 256 replaces a current size that is nil, zero or negative,
\* and no other.  The size sent is 266 for those; for a size from 1 to 255 it
\* is that size plus 10, below 266; from 256 to 2147483637 it is at least 266;
\* up to 2147483637 it is greater than the current size, and above that the
\* 32-bit addition wraps to a negative size.
C18_FloorOnlyForNonPositive ==
    \A vm \in VMNames :
        ResizeIssued(vm) =>
            LET s == CurrentSize(vm)
                n == SentSize(vm)
            IN /\ s <= 0 => n = 266
               /\ (1 <= s /\ s <= 255) => (n - s = 10 /\ n < 266)
               /\ (256 <= s /\ s <= 2147483637) => (n >= 266 /\ n > s)
               /\ s > 2147483637 => n < 0

\* The sizes 1 and 255 have been fetched and 11 and 265 sent.
C18_Witness ==
    /\ ResizeIssued(windowsVMname) /\ fetched[windowsVMname].size = Ptr(255)
    /\ SentSize(windowsVMname) = 265
    /\ ResizeIssued(linuxVMname) /\ fetched[linuxVMname].size = Ptr(1)
    /\ SentSize(linuxVMname) = 11

DeallocateRequest(vm) == <<"updateOSdiskSize", "VirtualMachines.Deallocate", vm>>

\* A Start or Restart request for vm has been issued by some goroutine.
StartOrRestartIssued(vm) ==
    \E g \in Goroutines : \E i \in DOMAIN issued[g] :
        /\ issued[g][i][2] \in {"VirtualMachines.Start", "VirtualMachines.Restart"}
        /\ issued[g][i][3] = vm

\* C19: the CreateOrUpdate carrying the new OS-disk size of a VM is issued
\* only when a Deallocate of that VM has returned without error, and no Start
\* or Restart of that VM is issued by anyone until that CreateOrUpdate has
\* itself completed, hence none between the Deallocate and the resize.
C19_DeallocateBeforeResize ==
    \A vm \in VMNames :
        LET g == OpsGoroutine(vm) IN
        /\ ResizeIssued(vm) => Has(completed[g], DeallocateRequest(vm))
        /\ StartOrRestartIssued(vm) => Has(completed[g], ResizeUpdate(vm))

\* The resize of the Linux VM is in flight, its Deallocate being the last
\* request that returned, and the VM has not been started.
C19_Witness ==
    /\ LastIssued("opsLinux", ResizeUpdate(linuxVMname))
    /\ st["opsLinux"] = "wait"
    /\ LastCompleted("opsLinux", DeallocateRequest(linuxVMname))
    /\ ~StartOrRestartIssued(linuxVMname)

\* C20: the attach, detach and resize updates carry the two tags of the tag
\* step; the resize update carries the empty data-disk list of the detach
\* step; the tag, attach and detach updates carry the OS-disk size as
\* fetched, and the tag update the data disks as fetched.
C20_StepsShareOneObject ==
    \A vm \in VMNames :
        LET g == OpsGoroutine(vm)
            two == Ptr({<<"who rocks", "golang">>, <<"where", "on azure">>})
        IN /\ (\/ LastIssued(g, AttachUpdate(vm))
               \/ LastIssued(g, DetachUpdate(vm))
               \/ LastIssued(g, ResizeUpdate(vm))) => sent[g].tags = two
           /\ LastIssued(g, ResizeUpdate(vm)) => sent[g].disks = Ptr(<<>>)
           /\ (\/ LastIssued(g, TagUpdate(vm))
               \/ LastIssued(g, AttachUpdate(vm))
               \/ LastIssued(g, DetachUpdate(vm))) => sent[g].size = fetched[vm].size
           /\ LastIssued(g, TagUpdate(vm)) => sent[g].disks = fetched[vm].disks

\* The resize update of the Windows VM, fetched with other tags, a data disk
\* and size 30, has been issued carrying the two tags, no data disk and 40;
\* the detach update of the Linux VM, fetched with no size, carries none.
C20_Witness ==
    /\ LastIssued("main", ResizeUpdate(windowsVMname))
    /\ fetched[windowsVMname] =
         [tags |-> Ptr(PriorTags), disks |-> Ptr(<<PriorDisk>>), size |-> Ptr(30)]
    /\ sent["main"] = [tags |-> Ptr(SampleTags), disks |-> Ptr(<<>>), size |-> Ptr(40)]
    /\ LastIssued("opsLinux", DetachUpdate(linuxVMname))
    /\ fetched[linuxVMname].size = Nil /\ sent["opsLinux"].size = Nil

====
